---- MODULE Spec2Model ----
(***************************************************************************)
(* A model of k8s_cleanup_operator.py: the operator that deletes Secrets   *)
(* and ConfigMaps no workload of a namespace refers to.                    *)
(*                                                                         *)
(* Strings the code inspects character by character (resource names, glob  *)
(* patterns, environment values) are sequences of one-character strings.   *)
(* Python's None and the empty string are both the empty sequence: the     *)
(* code only ever tests such values for truthiness.                        *)
(***************************************************************************)
EXTENDS Integers, Sequences, FiniteSets, TLC

Absent == <<>>

\* ------------------------------------------------------------------ bounds

\* timedelta(hours=1) in ticks of the clock.
HourUnits == 2
\* The clock runs from NowStart to MaxTime.  The oldest objects of the cluster
\* were created at 0, two hours before NowStart.
NowStart == 2 * HourUnits
MaxTime == 5
\* Cleanup cycles started in one behaviour.
MaxCycles == 1
\* Updates of the ConfigMap cleanup-operator-config by other writers in one
\* behaviour.
MaxUpdates == 2

\* ------------------------------------------------------------------- names

NS_default == <<"d","e","f","a","u","l","t">>
NS_prod == <<"p","r","o","d">>
Namespaces == {NS_default, NS_prod}

N_db == <<"d","b">>
N_sak == <<"s","a","k">>
N_kube_a == <<"k","u","b","e","-","a">>
N_a_token == <<"a","-","t","o","k","e","n">>
N_default_token_x == <<"d","e","f","a","u","l","t","-","t","o","k","e","n","-","x">>
N_t1 == <<"t","1">>
N_t2 == <<"t","2">>
N_t3 == <<"t","3">>
N_cfg == <<"c","f","g">>
N_sa == <<"s","a">>

P_kube == <<"k","u","b","e","-","*">>
P_default_token == <<"d","e","f","a","u","l","t","-","t","o","k","e","n","-","*">>

Kinds == {"Pod", "Deployment", "DaemonSet", "StatefulSet"}

SystemSecretTypes ==
    {"kubernetes.io/service-account-token", "kubernetes.io/dockercfg",
     "kubernetes.io/dockerconfigjson"}

\* What one call of the API client does: it returns, raises ApiException (the
\* server answered with an error status), or raises another exception (the
\* request never got an answer: urllib3's MaxRetryError and the like).
Outcomes == {"ok", "ApiException", "Exception"}

\* ------------------------------------------------------- string functions

\* str.startswith, str.endswith
startswith(s, prefix) ==
    Len(prefix) <= Len(s) /\ SubSeq(s, 1, Len(prefix)) = prefix

endswith(s, suffix) ==
    Len(suffix) <= Len(s) /\ SubSeq(s, Len(s) - Len(suffix) + 1, Len(s)) = suffix

\* fnmatch.fnmatch on a POSIX host (normcase is the identity): '*' matches any
\* run of characters, '?' any one character, any other character itself, and
\* the whole name must match.  (Bracket classes do not occur in the patterns
\* of this model.)
RECURSIVE fnmatch(_, _)
fnmatch(name, pattern) ==
    IF pattern = <<>> THEN name = <<>>
    ELSE IF Head(pattern) = "*"
         THEN fnmatch(name, Tail(pattern))
              \/ (name # <<>> /\ fnmatch(Tail(name), pattern))
    ELSE IF Head(pattern) = "?"
         THEN name # <<>> /\ fnmatch(Tail(name), Tail(pattern))
    ELSE name # <<>> /\ Head(name) = Head(pattern)
         /\ fnmatch(Tail(name), Tail(pattern))

Range(s) == {s[i] : i \in 1..Len(s)}

\* ----------------------------------------------------------- the workloads

\* A V1PodSpec as far as the code reads it.  present = FALSE is a spec that is
\* None.  has_namespace_attr says whether reading pod_spec.namespace returns
\* (namespace, Absent for None) or raises AttributeError.
EmptySpec ==
    [present |-> TRUE, volumes |-> <<>>, containers |-> <<>>,
     init_containers |-> <<>>, ephemeral_containers |-> <<>>,
     image_pull_secrets |-> <<>>, service_account_name |-> Absent,
     has_namespace_attr |-> FALSE, namespace |-> Absent]

EmptyContainer == [env |-> <<>>, env_from |-> <<>>]

SpecNone == [EmptySpec EXCEPT !.present = FALSE]

SpecVolume ==
    [EmptySpec EXCEPT !.volumes =
        << [secret |-> N_db, config_map |-> Absent, projected |-> <<>>],
           [secret |-> Absent, config_map |-> N_cfg, projected |-> <<>>] >>]

SpecProjected ==
    [EmptySpec EXCEPT !.volumes =
        << [secret |-> Absent, config_map |-> Absent, projected |->
               << [secret |-> N_db, config_map |-> Absent],
                  [secret |-> Absent, config_map |-> N_cfg] >>] >>]

SpecEnvKeyRef ==
    [EmptySpec EXCEPT !.containers =
        << [EmptyContainer EXCEPT !.env =
               << [secret_key_ref |-> N_db, config_map_key_ref |-> Absent],
                  [secret_key_ref |-> Absent, config_map_key_ref |-> N_cfg] >>] >>]

SpecEnvFrom ==
    [EmptySpec EXCEPT !.containers = << EmptyContainer >>,
                      !.init_containers =
        << [EmptyContainer EXCEPT !.env_from =
               << [secret_ref |-> N_db, config_map_ref |-> Absent] >>] >>,
                      !.ephemeral_containers =
        << [EmptyContainer EXCEPT !.env_from =
               << [secret_ref |-> Absent, config_map_ref |-> N_cfg] >>] >>]

SpecPullSecret == [EmptySpec EXCEPT !.image_pull_secrets = << N_db >>]

\* A spec naming a service account, read through the API client: V1PodSpec
\* has no attribute namespace.
SpecServiceAccount == [EmptySpec EXCEPT !.service_account_name = N_sa]

\* A spec naming a service account whose namespace attribute reads as None.
SpecServiceAccountNsNone ==
    [EmptySpec EXCEPT !.service_account_name = N_sa, !.has_namespace_attr = TRUE]

\* The workload of namespace prod: every kind, and every place of a spec that
\* names a Secret or a ConfigMap, occurs.
WorkloadPool ==
    { << "Pod", SpecVolume >>, << "Pod", SpecServiceAccount >>,
      << "Pod", SpecServiceAccountNsNone >>,
      << "Deployment", SpecProjected >>, << "Deployment", SpecNone >>,
      << "Deployment", SpecServiceAccountNsNone >>,
      << "DaemonSet", SpecEnvKeyRef >>, << "DaemonSet", SpecPullSecret >>,
      << "StatefulSet", SpecEnvFrom >> }

\* The service accounts of the cluster.
ServiceAccounts ==
    { [namespace |-> NS_prod, name |-> N_sa,
       secrets |-> << N_sak >>, image_pull_secrets |-> << N_t3 >>],
      [namespace |-> NS_default, name |-> N_sa,
       secrets |-> << N_a_token >>, image_pull_secrets |-> <<>>] }

\* The ServiceAccount objects of a namespace with the given name (one or none).
ServiceAccountsNamed(name, namespace) ==
    {sa \in ServiceAccounts : sa.namespace = namespace /\ sa.name = name}

\* v1.read_namespaced_service_account: a service account that does not exist
\* is a 404, an ApiException.
read_namespaced_service_account(name, namespace, outcome) ==
    IF outcome = "Exception" THEN [status |-> "Exception", found |-> {}]
    ELSE IF outcome = "ApiException" \/ ServiceAccountsNamed(name, namespace) = {}
         THEN [status |-> "ApiException", found |-> {}]
    ELSE [status |-> "ok", found |-> ServiceAccountsNamed(name, namespace)]

all_containers(pod_spec) ==
    pod_spec.containers \o pod_spec.init_containers \o pod_spec.ephemeral_containers

\* The names _extract_references_from_pod_spec adds from the volumes, the
\* containers and the image pull secrets of a spec.
VolumeSecrets(pod_spec) ==
    {v.secret : v \in {w \in Range(pod_spec.volumes) : w.secret # Absent}}
    \cup UNION {{src.secret : src \in {t \in Range(v.projected) : t.secret # Absent}}
                : v \in Range(pod_spec.volumes)}

VolumeConfigMaps(pod_spec) ==
    {v.config_map : v \in {w \in Range(pod_spec.volumes) : w.config_map # Absent}}
    \cup UNION {{src.config_map :
                    src \in {t \in Range(v.projected) : t.config_map # Absent}}
                : v \in Range(pod_spec.volumes)}

ContainerSecrets(pod_spec) ==
    UNION {{e.secret_key_ref : e \in {x \in Range(c.env) : x.secret_key_ref # Absent}}
           \cup {f.secret_ref : f \in {x \in Range(c.env_from) : x.secret_ref # Absent}}
           : c \in Range(all_containers(pod_spec))}

ContainerConfigMaps(pod_spec) ==
    UNION {{e.config_map_key_ref :
               e \in {x \in Range(c.env) : x.config_map_key_ref # Absent}}
           \cup {f.config_map_ref :
                    f \in {x \in Range(c.env_from) : x.config_map_ref # Absent}}
           : c \in Range(all_containers(pod_spec))}

ImagePullSecrets(pod_spec) == Range(pod_spec.image_pull_secrets)

\* The namespace the service account is read in: pod_spec.namespace or 'default'.
ServiceAccountNamespace(pod_spec) ==
    IF pod_spec.namespace # Absent THEN pod_spec.namespace ELSE NS_default

\* _extract_references_from_pod_spec.  The result is the references with the
\* names of the spec added, or raised = TRUE when an exception leaves the
\* function: the AttributeError of pod_spec.namespace, or an exception of the
\* service account read that is no ApiException; error names it.
extract_references_from_pod_spec(pod_spec, references, saOutcome) ==
    LET direct ==
            [secrets |-> references.secrets \cup VolumeSecrets(pod_spec)
                            \cup ContainerSecrets(pod_spec)
                            \cup ImagePullSecrets(pod_spec),
             configmaps |-> references.configmaps \cup VolumeConfigMaps(pod_spec)
                            \cup ContainerConfigMaps(pod_spec)]
        sa == read_namespaced_service_account(
                  pod_spec.service_account_name,
                  ServiceAccountNamespace(pod_spec), saOutcome)
    IN  IF ~pod_spec.present
        THEN [raised |-> FALSE, error |-> "none", references |-> references]
        ELSE IF pod_spec.service_account_name = Absent
        THEN [raised |-> FALSE, error |-> "none", references |-> direct]
        ELSE IF ~pod_spec.has_namespace_attr
        THEN [raised |-> TRUE, error |-> "AttributeError", references |-> direct]
        ELSE IF sa.status = "Exception"
        THEN [raised |-> TRUE, error |-> "Exception", references |-> direct]
        ELSE IF sa.status = "ApiException"
        THEN [raised |-> FALSE, error |-> "none", references |-> direct]
        ELSE [raised |-> FALSE, error |-> "none",
              references |->
                 [direct EXCEPT !.secrets =
                    @ \cup UNION {Range(a.secrets) \cup Range(a.image_pull_secrets)
                                  : a \in sa.found}]]

\* One of the four loops of get_resource_references over the items of a
\* listing: every item's spec is extracted into the same references.
RECURSIVE extract_items(_, _, _)
extract_items(items, references, saOutcome) ==
    IF items = {} THEN [raised |-> FALSE, error |-> "none", references |-> references]
    ELSE LET item == CHOOSE w \in items : TRUE
             one == extract_references_from_pod_spec(item.spec, references, saOutcome)
         IN  IF one.raised THEN one
             ELSE extract_items(items \ {item}, one.references, saOutcome)

\* ------------------------------------------------------------- timestamps

\* A datetime: the wall-clock reading and the offset of its zone from UTC.
\* The API server writes every creation timestamp in UTC.
Timestamp(t) == [wall |-> t, utcoffset |-> 0]

\* datetime.replace(tzinfo=timezone.utc): the wall-clock reading is kept.
replace_tzinfo_utc(ts) == [ts EXCEPT !.utcoffset = 0]

\* The instant a datetime names, as aware datetimes are compared.
Instant(ts) == ts.wall - ts.utcoffset

\* ----------------------------------------------------------- configuration

UpperCase == <<"A","B","C","D","E","F","G","H","I","J","K","L","M",
               "N","O","P","Q","R","S","T","U","V","W","X","Y","Z">>
LowerCase == <<"a","b","c","d","e","f","g","h","i","j","k","l","m",
               "n","o","p","q","r","s","t","u","v","w","x","y","z">>
Digits == <<"0","1","2","3","4","5","6","7","8","9">>

\* str.lower
lower(s) ==
    [i \in 1..Len(s) |->
        IF \E k \in 1..26 : UpperCase[k] = s[i]
        THEN LowerCase[CHOOSE k \in 1..26 : UpperCase[k] = s[i]]
        ELSE s[i]]

\* str.strip of blanks
RECURSIVE strip(_)
strip(s) ==
    IF s # <<>> /\ Head(s) = " " THEN strip(Tail(s))
    ELSE IF s # <<>> /\ s[Len(s)] = " " THEN strip(SubSeq(s, 1, Len(s) - 1))
    ELSE s

\* str.split(','): the pieces between the commas, empty pieces kept.
RECURSIVE split_comma(_)
split_comma(s) ==
    IF \A i \in 1..Len(s) : s[i] # ","
    THEN << s >>
    ELSE LET i == CHOOSE j \in 1..Len(s) :
                     s[j] = "," /\ \A k \in 1..(j - 1) : s[k] # ","
         IN  << SubSeq(s, 1, i - 1) >> \o split_comma(SubSeq(s, i + 1, Len(s)))

\* int() of a string: digits only here; anything else raises ValueError.
IsInt(s) == s # <<>> /\ \A i \in 1..Len(s) : \E d \in 1..10 : Digits[d] = s[i]

RECURSIVE int(_)
int(s) ==
    IF s = <<>> THEN 0
    ELSE 10 * int(SubSeq(s, 1, Len(s) - 1))
         + (CHOOSE d \in 1..10 : Digits[d] = s[Len(s)]) - 1

\* The module-level CONFIG dictionary.
DefaultConfig ==
    [namespaces |-> << NS_default >>,
     cleanup_interval |-> 3600,
     unused_threshold_hours |-> 1,
     dry_run |-> FALSE,
     exclude_patterns |-> << P_kube, P_default_token >>]

\* dict.update
dict_update(d, e) ==
    [k \in DOMAIN d \cup DOMAIN e |-> IF k \in DOMAIN e THEN e[k] ELSE d[k]]

\* What 'config.yaml' of the ConfigMap cleanup-operator-config may hold.
ConfigDataPool ==
    { [namespaces |-> << NS_prod, NS_default >>, dry_run |-> TRUE],
      [namespaces |-> << NS_prod, NS_default >>, exclude_patterns |-> <<>>,
       unused_threshold_hours |-> 2],
      [namespaces |-> << NS_prod, NS_prod >>, cleanup_interval |-> 60] }

\* The environment of the process.
EnvPool ==
    { [k \in {} |-> <<>>],
      [CLEANUP_NAMESPACES |-> <<"p","r","o","d",","," ","d","e","f","a","u","l","t">>,
       CLEANUP_INTERVAL |-> <<"9","0">>, DRY_RUN |-> <<"T","r","u","e">>] }

\* The environment overrides of load_config, in the order of the code; the
\* ValueError of int() ends them.
env_overrides(config, env) ==
    LET c1 == IF "CLEANUP_NAMESPACES" \in DOMAIN env
              THEN [config EXCEPT !.namespaces =
                       [i \in 1..Len(split_comma(env.CLEANUP_NAMESPACES)) |->
                           strip(split_comma(env.CLEANUP_NAMESPACES)[i])]]
              ELSE config
        c2 == IF "CLEANUP_INTERVAL" \in DOMAIN env
              THEN [c1 EXCEPT !.cleanup_interval = int(env.CLEANUP_INTERVAL)]
              ELSE c1
        c3 == IF "DRY_RUN" \in DOMAIN env
              THEN [c2 EXCEPT !.dry_run = (lower(env.DRY_RUN) = <<"t","r","u","e">>)]
              ELSE c2
    IN  IF "CLEANUP_INTERVAL" \in DOMAIN env /\ ~IsInt(env.CLEANUP_INTERVAL)
        THEN c1
        ELSE c3

\* load_config.  how is what the cluster does: "no_cluster" (the in-cluster
\* configuration cannot be loaded, or the read raises an exception that is no
\* ApiException: the outer handler logs and nothing is changed),
\* "ApiException" (the ConfigMap cannot be read), "no_key" (it holds no
\* 'config.yaml') or "loaded" (it holds config_data).
LoadOutcomes == {"no_cluster", "ApiException", "no_key", "loaded"}

load_config(config, env, how, config_data) ==
    IF how = "no_cluster" THEN config
    ELSE IF how = "loaded" THEN env_overrides(dict_update(config, config_data), env)
    ELSE env_overrides(config, env)

\* ------------------------------------------------------------------ state

VARIABLES
    CONFIG,           \* the module-level dictionary
    environ,          \* os.environ
    cleanup_handler,  \* FALSE: None; TRUE: a ResourceCleanup
    secrets,          \* the cluster: namespace -> the Secrets, in listing order
    configmaps,       \* the cluster: namespace -> the ConfigMaps, in listing order
    workloads,        \* the cluster: the Pods, Deployments, DaemonSets, StatefulSets
    now,              \* the clock
    handler,          \* the handler perform_cleanup runs in, or "none"
    pc,               \* where perform_cleanup stands
    ns_iter,          \* the list the loop of perform_cleanup iterates
    ns_idx,           \* the position of that loop
    cutoff_time,      \* get_unused_resources: cutoff_time
    references,       \* get_resource_references: references
    unused,           \* get_unused_resources: unused
    results,          \* cleanup_namespace: results
    idx,              \* cleanup_namespace: the position of its delete loop
    calls,            \* history: the listings and service account reads of
                      \* the get_unused_resources of this namespace
    total_results,    \* perform_cleanup: total_results
    cycles,           \* the cycles started so far
    delete_calls,     \* history: the delete calls of the cycle, in order
    visited,          \* history: the namespaces of the cycle and how each ended
    cycle_log,        \* history: the last message perform_cleanup logged
    listing_faults,   \* whether the list and read calls of a scan may fail in
                      \* this behaviour
    timer_interval,   \* the interval the decorator of cleanup_timer was given
    config_object,    \* the cluster: the ConfigMap cleanup-operator-config
    events,           \* the updates of that ConfigMap the operator has yet to handle
    mt_pc,            \* where manual_trigger_handler stands, or "none"
    mt_read,          \* manual_trigger_handler: config_map
    trigger_log       \* history: how the last removal of the annotation went

vars ==
    << CONFIG, environ, cleanup_handler, secrets, configmaps, workloads, now,
       handler, pc, ns_iter, ns_idx, cutoff_time, references, unused, results,
       idx, calls, total_results, cycles, delete_calls, visited, cycle_log,
       listing_faults, timer_interval, config_object, events, mt_pc, mt_read,
       trigger_log >>

cluster == << secrets, configmaps, workloads >>
locals == << cutoff_time, references, unused, results, idx, calls >>
history == << delete_calls, visited, cycle_log >>
trigger_vars ==
    << listing_faults, timer_interval, config_object, events, mt_pc, mt_read,
       trigger_log >>

Secret(name, type, created) ==
    [name |-> name, type |-> type, creation_timestamp |-> Timestamp(created)]

ConfigMap(name, created) ==
    [name |-> name, creation_timestamp |-> Timestamp(created)]

InitSecrets ==
    (NS_prod :> << Secret(N_db, "Opaque", 2),
                   Secret(N_sak, "Opaque", 0),
                   Secret(N_kube_a, "Opaque", 0),
                   Secret(N_a_token, "Opaque", 0),
                   Secret(N_default_token_x, "Opaque", 0),
                   Secret(N_t1, "kubernetes.io/service-account-token", 0),
                   Secret(N_t2, "kubernetes.io/dockercfg", 0),
                   Secret(N_t3, "kubernetes.io/dockerconfigjson", 0) >>)
    @@ (NS_default :> << Secret(N_db, "Opaque", 0) >>)

InitConfigMaps ==
    (NS_prod :> << ConfigMap(N_cfg, 2), ConfigMap(N_kube_a, 0) >>)
    @@ (NS_default :> << ConfigMap(N_cfg, 0) >>)

NoReferences == [secrets |-> {}, configmaps |-> {}]
NoUnused == [secrets |-> <<>>, configmaps |-> <<>>]
NoResults == [secrets_deleted |-> 0, configmaps_deleted |-> 0]
AllOk == [list |-> [k \in Kinds |-> "ok"], sa |-> "ok", secret |-> "ok",
          config_map |-> "ok"]
NoCalls == [listed |-> 0, sa_reads |-> {}, oc |-> AllOk]

\* The ConfigMap cleanup-operator-config as far as manual_trigger_handler
\* reads it: its annotations (a dictionary) and its resource version.
TriggerKey == "cleanup.operator/trigger"
NoAnnotations == [k \in {} |-> "now"]
TriggerNow == [k \in {TriggerKey} |-> "now"]
NoConfigMapRead == [annotations |-> NoAnnotations, resource_version |-> 0]
NoTriggerLog == [read |-> "none", patch |-> "none"]

\* The process after the import of the module: CONFIG holds the defaults, the
\* decorator of cleanup_timer has been given CONFIG['cleanup_interval'], and
\* no handler has run.
InitOperator ==
    /\ CONFIG = DefaultConfig
    /\ timer_interval = DefaultConfig.cleanup_interval
    /\ cleanup_handler = FALSE
    /\ handler = "none"
    /\ pc = "idle"
    /\ ns_iter = <<>>
    /\ ns_idx = 0
    /\ cutoff_time = 0
    /\ references = NoReferences
    /\ unused = NoUnused
    /\ results = NoResults
    /\ idx = 0
    /\ calls = NoCalls
    /\ total_results = NoResults
    /\ cycles = 0
    /\ delete_calls = <<>>
    /\ visited = <<>>
    /\ cycle_log = "none"
    /\ events = <<>>
    /\ mt_pc = "none"
    /\ mt_read = NoConfigMapRead
    /\ trigger_log = NoTriggerLog

Init ==
    /\ InitOperator
    /\ environ \in EnvPool
    /\ secrets = InitSecrets
    /\ configmaps = InitConfigMaps
    /\ \E w \in WorkloadPool :
          workloads =
              { [namespace |-> NS_prod, kind |-> w[1], spec |-> w[2]],
                [namespace |-> NS_default, kind |-> "Deployment",
                 spec |-> SpecEnvFrom] }
    /\ now = NowStart
    /\ listing_faults = TRUE
    /\ config_object = [annotations |-> NoAnnotations, resource_version |-> 0]

\* --------------------------------------------------------- the API listings

list_namespaced(objects, namespace) ==
    IF namespace \in DOMAIN objects THEN objects[namespace] ELSE <<>>

list_workloads(kind, namespace) ==
    {w \in workloads : w.namespace = namespace /\ w.kind = kind}

\* ------------------------------------------------------ startup and reload

\* Handlers run by a pool of threads: one begins whatever the others do.
loop_free_always == TRUE

\* Every handler is a coroutine of the one event loop, and none of them
\* suspends between its first line and its last (the only awaits are of
\* perform_cleanup, which awaits nothing): a handler begins only when no
\* other handler is running.
loop_free == pc = "idle" /\ mt_pc = "none"

\* startup_handler: load_config, then cleanup_handler = ResourceCleanup().
startup_handler ==
    /\ loop_free
    /\ ~cleanup_handler
    /\ \E how \in LoadOutcomes, config_data \in ConfigDataPool :
          CONFIG' = load_config(CONFIG, environ, how, config_data)
    /\ cleanup_handler' = TRUE
    /\ UNCHANGED trigger_vars
    /\ UNCHANGED << environ, cluster, now, handler, pc, ns_iter, ns_idx, locals,
                    total_results, cycles, history >>

\* Time passes.  The code reads the clock once per namespace, where
\* get_unused_resources begins; the clock is advanced only between those reads.
Tick ==
    /\ pc \in {"idle", "ns_loop"}
    /\ now < MaxTime
    /\ now' = now + 1
    /\ UNCHANGED trigger_vars
    /\ UNCHANGED << CONFIG, environ, cleanup_handler, cluster, handler, pc, ns_iter,
                    ns_idx, locals, total_results, cycles, history >>

\* ----------------------------------------------------- the classification

\* should_exclude_resource without its loop over exclude_patterns.
should_exclude_resource_names_only(config, name, resource_type) ==
    /\ resource_type = "secret"
    /\ \/ startswith(name, <<"d","e","f","a","u","l","t","-","t","o","k","e","n","-">>)
       \/ endswith(name, <<"-","t","o","k","e","n">>)

\* should_exclude_resource, reading the dictionary config.
should_exclude_resource(config, name, resource_type) ==
    \/ \E i \in 1..Len(config.exclude_patterns) :
          fnmatch(name, config.exclude_patterns[i])
    \/ /\ resource_type = "secret"
       /\ \/ startswith(name, <<"d","e","f","a","u","l","t","-","t","o","k","e","n","-">>)
          \/ endswith(name, <<"-","t","o","k","e","n">>)

\* The cutoff of get_unused_resources: now less the threshold.
cutoff(config, clock) == clock - config.unused_threshold_hours * HourUnits

\* The test on one Secret with the age compared by <= instead of <.
is_unused_secret_at_cutoff(config, secret, refs, cutoff_at) ==
    /\ ~should_exclude_resource(config, secret.name, "secret")
    /\ secret.type \notin SystemSecretTypes
    /\ secret.name \notin refs.secrets
    /\ Instant(replace_tzinfo_utc(secret.creation_timestamp)) <= cutoff_at

\* The test on one Secret without the skip of the system types.
is_unused_secret_any_type(config, secret, refs, cutoff_at) ==
    /\ ~should_exclude_resource(config, secret.name, "secret")
    /\ secret.name \notin refs.secrets
    /\ Instant(replace_tzinfo_utc(secret.creation_timestamp)) < cutoff_at

\* The test of get_unused_resources on one Secret of the listing.
is_unused_secret(config, secret, refs, cutoff_at) ==
    /\ ~should_exclude_resource(config, secret.name, "secret")
    /\ secret.type \notin SystemSecretTypes
    /\ secret.name \notin refs.secrets
    /\ Instant(replace_tzinfo_utc(secret.creation_timestamp)) < cutoff_at

\* The test on one ConfigMap without the look into the references.
is_unused_configmap_ignoring_references(config, configmap, refs, cutoff_at) ==
    /\ ~should_exclude_resource(config, configmap.name, "configmap")
    /\ Instant(replace_tzinfo_utc(configmap.creation_timestamp)) < cutoff_at

\* The test of get_unused_resources on one ConfigMap of the listing.
is_unused_configmap(config, configmap, refs, cutoff_at) ==
    /\ ~should_exclude_resource(config, configmap.name, "configmap")
    /\ configmap.name \notin refs.configmaps
    /\ Instant(replace_tzinfo_utc(configmap.creation_timestamp)) < cutoff_at

NamesOf(items) == [i \in 1..Len(items) |-> items[i].name]

\* A loop over the Secrets that stops after its first append.
unused_secrets_first_found(config, items, refs, cutoff_at) ==
    LET found ==
            NamesOf(SelectSeq(items,
                              LAMBDA s : is_unused_secret(config, s, refs, cutoff_at)))
    IN  IF found = <<>> THEN <<>> ELSE << Head(found) >>

unused_secrets(config, items, refs, cutoff_at) ==
    NamesOf(SelectSeq(items, LAMBDA s : is_unused_secret(config, s, refs, cutoff_at)))

unused_configmaps(config, items, refs, cutoff_at) ==
    NamesOf(SelectSeq(items,
                      LAMBDA c : is_unused_configmap(config, c, refs, cutoff_at)))

\* ----------------------------------------------------------- the cycle

\* The namespace the loop of perform_cleanup stands at.
namespace == ns_iter[ns_idx]

\* perform_cleanup, entered from handler h: without a cleanup handler it logs
\* and returns; otherwise the cycle starts.
perform_cleanup(h) ==
    /\ pc = "idle"
    /\ IF ~cleanup_handler
       THEN /\ cycle_log' = "Cleanup handler not initialized"
            /\ UNCHANGED << handler, pc, ns_iter, ns_idx, total_results, cycles,
                            delete_calls, visited >>
       ELSE /\ cycles < MaxCycles
            /\ cycles' = cycles + 1
            /\ handler' = h
            /\ pc' = "ns_loop"
            /\ ns_iter' = CONFIG.namespaces
            /\ ns_idx' = 1
            /\ total_results' = NoResults
            /\ delete_calls' = <<>>
            /\ visited' = <<>>
            /\ cycle_log' = "Starting scheduled cleanup cycle"
    /\ UNCHANGED << CONFIG, environ, cleanup_handler, cluster, now, locals >>

\* cleanup_timer
cleanup_timer ==
    loop_free /\ perform_cleanup("cleanup_timer") /\ UNCHANGED trigger_vars

\* create_fn
create_fn ==
    loop_free /\ perform_cleanup("create_fn") /\ UNCHANGED trigger_vars

\* ------------------------------------------------- the calls of one namespace

\* The order in which get_resource_references lists the workload kinds.
ListOrder == << "Pod", "Deployment", "DaemonSet", "StatefulSet" >>

\* How the listings of get_resource_references go: its try block ends with
\* the first listing that fails, so at most one of them fails.
ListOutcomes ==
    {[k \in Kinds |-> "ok"]}
    \cup {[k \in Kinds |-> IF k = failing THEN o ELSE "ok"] :
             failing \in Kinds, o \in {"ApiException", "Exception"}}

\* How the listings of the Secrets and of the ConfigMaps go: the try block of
\* get_unused_resources ends with the first one that fails.
ResourceOutcomes ==
    {<< "ok", o >> : o \in Outcomes}
    \cup {<< o, "ok" >> : o \in {"ApiException", "Exception"}}

\* How the API calls of one get_unused_resources go: the listings, and the
\* reads of the service accounts.
CallOutcomes(sa_outcomes) ==
    {[list |-> l, sa |-> a, secret |-> r[1], config_map |-> r[2]] :
        l \in ListOutcomes, a \in sa_outcomes, r \in ResourceOutcomes}

\* How the service account reads of a namespace may go: where no workload
\* names a service account there is no read.
ServiceAccountOutcomes(ns) ==
    IF \E w \in workloads :
          w.namespace = ns /\ w.spec.present /\ w.spec.service_account_name # Absent
    THEN Outcomes
    ELSE {"ok"}

\* An except clause that returns a fresh, empty references.
references_dropped(refs) == NoReferences

\* The except clause of get_resource_references: the error is logged and the
\* references collected so far are returned.
references_on_api_exception(refs) == refs

\* get_resource_references from the k-th listing on.  raised = TRUE when an
\* exception that is no ApiException leaves the function; listed counts the
\* listings that returned.
RECURSIVE list_from(_, _, _, _)
list_from(k, ns, refs, oc) ==
    IF k > Len(ListOrder)
    THEN [raised |-> FALSE, error |-> "none", references |-> refs, listed |-> k - 1]
    ELSE IF oc.list[ListOrder[k]] = "Exception"
         THEN [raised |-> TRUE, error |-> "Exception", references |-> refs,
               listed |-> k - 1]
    ELSE IF oc.list[ListOrder[k]] = "ApiException"
         THEN [raised |-> FALSE, error |-> "none",
               references |-> references_on_api_exception(refs), listed |-> k - 1]
    ELSE LET ex == extract_items(list_workloads(ListOrder[k], ns), refs, oc.sa)
         IN  IF ex.raised
             THEN [raised |-> TRUE, error |-> ex.error, references |-> ex.references,
                   listed |-> k]
             ELSE list_from(k + 1, ns, ex.references, oc)

get_resource_references(ns, oc) == list_from(1, ns, NoReferences, oc)

\* The service account reads of a get_resource_references that listed the
\* first n kinds: the name and the namespace of each read and how it went.
service_account_reads(ns, oc, n) ==
    {[name |-> w.spec.service_account_name,
      namespace |-> ServiceAccountNamespace(w.spec),
      status |-> read_namespaced_service_account(
                     w.spec.service_account_name,
                     ServiceAccountNamespace(w.spec), oc.sa).status] :
        w \in {x \in workloads :
                  /\ x.namespace = ns
                  /\ \E i \in 1..n : ListOrder[i] = x.kind
                  /\ x.spec.present
                  /\ x.spec.service_account_name # Absent
                  /\ x.spec.has_namespace_attr}}

\* get_unused_resources, reading the dictionary config, at the given clock
\* reading.  An ApiException of a listing ends the try block with what unused
\* holds.
get_unused_resources(config, ns, oc, clock) ==
    LET refs == CHOOSE r \in {get_resource_references(ns, oc)} : TRUE
        found_secrets ==
            unused_secrets(config, list_namespaced(secrets, ns), refs.references,
                           cutoff(config, clock))
        found_configmaps ==
            unused_configmaps(config, list_namespaced(configmaps, ns),
                              refs.references, cutoff(config, clock))
    IN  IF refs.raised \/ oc.secret = "Exception"
           \/ (oc.secret = "ok" /\ oc.config_map = "Exception")
        THEN [raised |-> TRUE,
              error |-> IF refs.raised THEN refs.error ELSE "Exception",
              references |-> refs.references, calls |-> NoCalls,
              cutoff_time |-> cutoff(config, clock), unused |-> NoUnused]
        ELSE [raised |-> FALSE,
              error |-> "none",
              references |-> refs.references,
              calls |-> [listed |-> refs.listed,
                         sa_reads |-> service_account_reads(ns, oc, refs.listed),
                         oc |-> oc],
              cutoff_time |-> cutoff(config, clock),
              unused |->
                 [secrets |-> IF oc.secret = "ok" THEN found_secrets ELSE <<>>,
                  configmaps |-> IF oc.secret = "ok" /\ oc.config_map = "ok"
                                 THEN found_configmaps ELSE <<>>]]

\* An exception of cleanup_namespace that perform_cleanup does not catch: the
\* loop over the namespaces ends with it.
namespace_raised_aborts(error) ==
    /\ visited' = Append(visited, [namespace |-> namespace, status |-> "raised",
                                   error |-> error, results |-> NoResults])
    /\ ns_idx' = ns_idx + 1
    /\ pc' = "idle"
    /\ cutoff_time' = 0
    /\ references' = NoReferences
    /\ unused' = NoUnused
    /\ results' = NoResults
    /\ idx' = 0
    /\ calls' = NoCalls
    /\ UNCHANGED << total_results, cycle_log >>

\* perform_cleanup without its except clause, the exception kept by the
\* framework: the cycle stays where the exception left it.
namespace_raised_unfinished(error) ==
    /\ pc' = "raised"
    /\ UNCHANGED << visited, ns_idx, locals, total_results, cycle_log >>

\* An exception leaves cleanup_namespace: perform_cleanup catches it, logs it
\* and goes on with the next namespace.
namespace_raised(error) ==
    /\ visited' = Append(visited, [namespace |-> namespace, status |-> "raised",
                                   error |-> error, results |-> NoResults])
    /\ ns_idx' = ns_idx + 1
    /\ pc' = "ns_loop"
    /\ cutoff_time' = 0
    /\ references' = NoReferences
    /\ unused' = NoUnused
    /\ results' = NoResults
    /\ idx' = 0
    /\ calls' = NoCalls
    /\ UNCHANGED << total_results, cycle_log >>

\* The loop of perform_cleanup takes the next namespace: cleanup_namespace
\* calls get_unused_resources and sets its results to zero.
cleanup_namespace_begin ==
    /\ pc = "ns_loop"
    /\ ns_idx <= Len(ns_iter)
    /\ \E oc \in IF listing_faults
                  THEN CallOutcomes(ServiceAccountOutcomes(namespace))
                  ELSE {AllOk} :
          \E got \in {get_unused_resources(CONFIG, namespace, oc, now)} :
              IF got.raised
              THEN namespace_raised(got.error) /\ UNCHANGED delete_calls
              ELSE /\ cutoff_time' = got.cutoff_time
                   /\ references' = got.references
                   /\ unused' = got.unused
                   /\ results' = NoResults
                   /\ idx' = 1
                   /\ calls' = got.calls
                   /\ pc' = "delete_secrets"
                   /\ UNCHANGED << ns_idx, total_results, history >>
    /\ UNCHANGED trigger_vars
    /\ UNCHANGED << CONFIG, environ, cleanup_handler, cluster, now, handler,
                    ns_iter, cycles >>

\* The loop of perform_cleanup is over: the totals are logged and
\* perform_cleanup returns; manual_trigger_handler goes on with the removal of
\* the annotation, the other handlers return.
perform_cleanup_end ==
    /\ pc = "ns_loop"
    /\ ns_idx > Len(ns_iter)
    /\ cycle_log' = "Cleanup cycle completed"
    /\ pc' = "idle"
    /\ handler' = "none"
    /\ ns_iter' = <<>>
    /\ ns_idx' = 0
    /\ total_results' = NoResults
    /\ delete_calls' = <<>>
    /\ visited' = <<>>
    /\ mt_pc' = IF handler = "manual_trigger_handler" THEN "read" ELSE mt_pc
    /\ UNCHANGED << CONFIG, environ, cleanup_handler, cluster, now, locals, cycles,
                    listing_faults, timer_interval, config_object, events, mt_read,
                    trigger_log >>

\* ----------------------------------------------------------- the deletions

\* A delete that takes the name away in every namespace.
delete_in_every_namespace(objects, name, ns) ==
    [n \in DOMAIN objects |-> SelectSeq(objects[n], LAMBDA o : o.name # name)]

\* v1.delete_namespaced_secret / delete_namespaced_config_map on the cluster.
\* The call record of a delete keeps what the server would have answered had
\* the object been there (outcome) and what the call did (result).
delete_namespaced(objects, name, ns) ==
    [objects EXCEPT ![ns] = SelectSeq(@, LAMBDA o : o.name # name)]

Exists(objects, name, ns) ==
    \E i \in 1..Len(list_namespaced(objects, ns)) :
        list_namespaced(objects, ns)[i].name = name

\* What a delete call does when the client's call would go as outcome: the
\* delete of an object that is not there is a 404, an ApiException.
delete_result(objects, name, ns, outcome) ==
    IF outcome = "ok" /\ ~Exists(objects, name, ns) THEN "ApiException" ELSE outcome

\* Delete loops that do not look at CONFIG['dry_run'].
calls_delete_always == TRUE

\* The branch of the delete loops on CONFIG['dry_run']: whether the delete
\* call is made.
calls_delete == ~CONFIG.dry_run

\* A counter incremented for every candidate, whatever the delete did.
counts_attempted(result) == TRUE

\* The counter of a delete loop is incremented when the body of the try
\* reaches its last line: in a dry run always, else when the delete returned.
counts_deleted(result) == result = "ok"

\* Delete loops without the except clause: every exception leaves
\* cleanup_namespace.
caught_in_loop_nothing(result) == result = "ok"

\* The except clause of a delete loop catches ApiException only: any other
\* exception leaves cleanup_namespace.
caught_in_loop(result) == result # "Exception"

\* One turn of the loop over unused_resources['secrets'].
delete_secret ==
    /\ pc = "delete_secrets"
    /\ idx <= Len(unused.secrets)
    /\ IF ~calls_delete
       THEN /\ results' = [results EXCEPT !.secrets_deleted = @ + 1]
            /\ idx' = idx + 1
            /\ UNCHANGED << secrets, ns_idx, pc, cutoff_time, references, unused,
                            calls, total_results, history >>
       ELSE \E outcome \in Outcomes :
               LET name == unused.secrets[idx]
                   result == delete_result(secrets, name, namespace, outcome)
                   call == [namespace |-> namespace, kind |-> "secret",
                            name |-> name, result |-> result,
                            position |-> ns_idx, outcome |-> outcome]
               IN  /\ secrets' = IF result = "ok"
                                 THEN delete_namespaced(secrets, name, namespace)
                                 ELSE secrets
                   /\ IF caught_in_loop(result)
                      THEN /\ results' =
                                IF counts_deleted(result)
                                THEN [results EXCEPT !.secrets_deleted = @ + 1]
                                ELSE results
                           /\ idx' = idx + 1
                           /\ delete_calls' = Append(delete_calls, call)
                           /\ UNCHANGED << ns_idx, pc, cutoff_time, references,
                                           unused, calls, total_results, visited,
                                           cycle_log >>
                      ELSE /\ delete_calls' = Append(delete_calls, call)
                           /\ namespace_raised("Exception")
    /\ UNCHANGED trigger_vars
    /\ UNCHANGED << CONFIG, environ, cleanup_handler, configmaps, workloads, now,
                    handler, ns_iter, cycles >>

\* The loop over unused_resources['secrets'] is over.
delete_secrets_end ==
    /\ pc = "delete_secrets"
    /\ idx > Len(unused.secrets)
    /\ pc' = "delete_configmaps"
    /\ idx' = 1
    /\ UNCHANGED trigger_vars
    /\ UNCHANGED << CONFIG, environ, cleanup_handler, cluster, now, handler,
                    ns_iter, ns_idx, cutoff_time, references, unused, results,
                    calls, total_results, cycles, history >>

\* One turn of the loop over unused_resources['configmaps'].
delete_configmap ==
    /\ pc = "delete_configmaps"
    /\ idx <= Len(unused.configmaps)
    /\ IF ~calls_delete
       THEN /\ results' = [results EXCEPT !.configmaps_deleted = @ + 1]
            /\ idx' = idx + 1
            /\ UNCHANGED << configmaps, ns_idx, pc, cutoff_time, references,
                            unused, calls, total_results, history >>
       ELSE \E outcome \in Outcomes :
               LET name == unused.configmaps[idx]
                   result == delete_result(configmaps, name, namespace, outcome)
                   call == [namespace |-> namespace, kind |-> "configmap",
                            name |-> name, result |-> result,
                            position |-> ns_idx, outcome |-> outcome]
               IN  /\ configmaps' = IF result = "ok"
                                    THEN delete_namespaced(configmaps, name, namespace)
                                    ELSE configmaps
                   /\ IF caught_in_loop(result)
                      THEN /\ results' =
                                IF counts_deleted(result)
                                THEN [results EXCEPT !.configmaps_deleted = @ + 1]
                                ELSE results
                           /\ idx' = idx + 1
                           /\ delete_calls' = Append(delete_calls, call)
                           /\ UNCHANGED << ns_idx, pc, cutoff_time, references,
                                           unused, calls, total_results, visited,
                                           cycle_log >>
                      ELSE /\ delete_calls' = Append(delete_calls, call)
                           /\ namespace_raised("Exception")
    /\ UNCHANGED trigger_vars
    /\ UNCHANGED << CONFIG, environ, cleanup_handler, secrets, workloads, now,
                    handler, ns_iter, cycles >>

\* Totals that hold the results of the last namespace only.
total_overwritten(total, returned) == returned

\* Lines 322-323 of perform_cleanup: the results returned are added to the
\* totals.
add_results(total, returned) ==
    [secrets_deleted |-> total.secrets_deleted + returned.secrets_deleted,
     configmaps_deleted |-> total.configmaps_deleted + returned.configmaps_deleted]

\* cleanup_namespace returns its results and perform_cleanup adds them to the
\* totals.
cleanup_namespace_return ==
    /\ pc = "delete_configmaps"
    /\ idx > Len(unused.configmaps)
    /\ total_results' = add_results(total_results, results)
    /\ visited' = Append(visited, [namespace |-> namespace, status |-> "returned",
                                   error |-> "none", results |-> results])
    /\ ns_idx' = ns_idx + 1
    /\ pc' = "ns_loop"
    /\ cutoff_time' = 0
    /\ references' = NoReferences
    /\ unused' = NoUnused
    /\ results' = NoResults
    /\ idx' = 0
    /\ calls' = NoCalls
    /\ UNCHANGED trigger_vars
    /\ UNCHANGED << CONFIG, environ, cleanup_handler, cluster, now, handler,
                    ns_iter, cycles, delete_calls, cycle_log >>

Next ==
    \/ startup_handler
    \/ Tick
    \/ cleanup_timer
    \/ create_fn
    \/ cleanup_namespace_begin
    \/ delete_secret
    \/ delete_secrets_end
    \/ delete_configmap
    \/ cleanup_namespace_return
    \/ perform_cleanup_end

Spec == Init /\ [][Next]_vars

\* The steps of a cycle.  perform_cleanup and what it calls are synchronous
\* code: once the cycle has begun the interpreter runs its next statement,
\* and each call of the API client returns or raises (the client's requests
\* time out).
CycleStep ==
    \/ cleanup_namespace_begin
    \/ delete_secret
    \/ delete_secrets_end
    \/ delete_configmap
    \/ cleanup_namespace_return
    \/ perform_cleanup_end

\* The operator with an empty environment and, in namespace prod, a Pod that
\* names a service account, so that a scan makes list calls and a get call.
FairInit ==
    /\ InitOperator
    /\ environ = [k \in {} |-> <<>>]
    /\ secrets = InitSecrets
    /\ configmaps = InitConfigMaps
    /\ workloads =
          { [namespace |-> NS_prod, kind |-> "Pod",
             spec |-> SpecServiceAccountNsNone],
            [namespace |-> NS_default, kind |-> "Deployment",
             spec |-> SpecEnvFrom] }
    /\ now = NowStart
    /\ listing_faults = TRUE
    /\ config_object = [annotations |-> NoAnnotations, resource_version |-> 0]

FairSpec == FairInit /\ [][Next]_vars /\ WF_vars(CycleStep)

\* --------------------------------- the configuration object and its handlers

\* dict.pop(key, None) as a statement
dict_pop(d, key) == [k \in DOMAIN d \ {key} |-> d[k]]

\* annotations.get('cleanup.operator/trigger') == 'now'
triggered(annotations) ==
    TriggerKey \in DOMAIN annotations /\ annotations[TriggerKey] = "now"

\* Another writer updates the ConfigMap cleanup-operator-config: it sets the
\* trigger annotation, removes it, or leaves the annotations as they are and
\* changes the data.  The operator is sent the update.  The updates come one
\* at a time, but for the one that races the removal of the annotation; an
\* update made during a cycle reaches the handlers as one made right after
\* it does.
writer_update ==
    /\ config_object.resource_version < MaxUpdates
    /\ pc = "idle"
    /\ Len(events) <= (IF mt_pc = "none" THEN 0 ELSE 1)
    /\ \E a \in {NoAnnotations, TriggerNow} :
          /\ config_object' = [annotations |-> a,
                               resource_version |-> config_object.resource_version + 1]
          /\ events' = Append(events, [old |-> config_object.annotations, new |-> a,
                                       reloaded |-> FALSE])
    /\ UNCHANGED << CONFIG, environ, cleanup_handler, cluster, now, handler, pc,
                    ns_iter, ns_idx, locals, total_results, cycles, history,
                    listing_faults, timer_interval, mt_pc, mt_read, trigger_log >>

\* config_change_handler: the framework calls it for the update before the
\* on.update handler; the event is a MODIFIED one and load_config runs.
config_change_handler ==
    /\ loop_free
    /\ events # <<>>
    /\ ~Head(events).reloaded
    /\ \E how \in LoadOutcomes, config_data \in ConfigDataPool :
          CONFIG' = load_config(CONFIG, environ, how, config_data)
    /\ events' = [events EXCEPT ![1].reloaded = TRUE]
    /\ UNCHANGED << environ, cleanup_handler, cluster, now, handler, pc, ns_iter,
                    ns_idx, locals, total_results, cycles, history, listing_faults,
                    timer_interval,
                    config_object, mt_pc, mt_read, trigger_log >>

\* A handler that starts perform_cleanup without awaiting it: the removal of
\* the annotation is next, whatever the cycle does.
manual_without_await == "read"

\* Where manual_trigger_handler stands once perform_cleanup has begun: line
\* 348 awaits it, and the removal of the annotation follows its return.
manual_after_trigger == "cleanup"

\* manual_trigger_handler up to its await of perform_cleanup.  Without the
\* annotation the handler returns at once.
manual_trigger_handler ==
    /\ loop_free
    /\ events # <<>>
    /\ Head(events).reloaded
    /\ IF triggered(Head(events).new)
       THEN /\ perform_cleanup("manual_trigger_handler")
            /\ mt_pc' = IF cleanup_handler THEN manual_after_trigger ELSE "read"
            /\ trigger_log' = NoTriggerLog
            /\ UNCHANGED << listing_faults, timer_interval, config_object, events,
                            mt_read >>
       ELSE /\ events' = Tail(events)
            /\ UNCHANGED << CONFIG, environ, cleanup_handler, cluster, now, handler,
                            pc, ns_iter, ns_idx, locals, total_results, cycles,
                            history, listing_faults, timer_interval, config_object,
                            mt_pc, mt_read,
                            trigger_log >>

\* manual_trigger_handler, lines 352-357: the read of the ConfigMap.  Any
\* exception is logged and the handler returns; so it does when the
\* annotations read are empty.
remove_annotation_read ==
    /\ mt_pc = "read"
    /\ \E outcome \in Outcomes :
          /\ trigger_log' = [read |-> outcome, patch |-> "none"]
          /\ IF outcome = "ok"
             THEN /\ mt_read' = config_object
                  /\ IF DOMAIN config_object.annotations # {}
                     THEN mt_pc' = "patch" /\ UNCHANGED events
                     ELSE mt_pc' = "none" /\ events' = Tail(events)
             ELSE /\ mt_pc' = "none"
                  /\ events' = Tail(events)
                  /\ UNCHANGED mt_read
    /\ UNCHANGED << CONFIG, environ, cleanup_handler, cluster, now, handler, pc,
                    ns_iter, ns_idx, locals, total_results, cycles, history,
                    listing_faults, timer_interval, config_object >>

\* What the API server does with a patch of the ConfigMap whose body is an
\* object: the body is merged into the stored object, so a key the body
\* lacks is kept; the resource version moves when the object changes.
patch_namespaced_config_map(object, body) ==
    LET merged == dict_update(object.annotations, body.annotations)
    IN  [annotations |-> merged,
         resource_version |-> IF merged = object.annotations
                              THEN object.resource_version
                              ELSE object.resource_version + 1]

\* How the patch goes: the body carries the resource version of the read, and
\* the server answers 409, an ApiException, when the stored object has moved.
patch_result(object, body, outcome) ==
    IF outcome = "ok" /\ body.resource_version # object.resource_version
    THEN "ApiException"
    ELSE outcome

\* manual_trigger_handler, lines 358-365: the annotation is popped from the
\* object read and the object is sent as the body of a patch.
remove_annotation_patch ==
    /\ mt_pc = "patch"
    /\ \E outcome \in Outcomes :
          LET body == [annotations |-> dict_pop(mt_read.annotations, TriggerKey),
                       resource_version |-> mt_read.resource_version]
              result == patch_result(config_object, body, outcome)
              patched == IF result = "ok"
                         THEN patch_namespaced_config_map(config_object, body)
                         ELSE config_object
          IN  /\ config_object' = patched
              /\ events' =
                    IF patched.annotations # config_object.annotations
                    THEN Append(Tail(events), [old |-> config_object.annotations,
                                               new |-> patched.annotations,
                                               reloaded |-> FALSE])
                    ELSE Tail(events)
              /\ trigger_log' = [read |-> "ok", patch |-> result]
    /\ mt_pc' = "none"
    /\ UNCHANGED << CONFIG, environ, cleanup_handler, cluster, now, handler, pc,
                    ns_iter, ns_idx, locals, total_results, cycles, history,
                    listing_faults, timer_interval, mt_read >>

\* Another actor removes the candidate the delete loop stands at, before the
\* operator's delete call.  (A removal at any other moment gives the listings
\* a different cluster, or meets the delete call the same way.)
other_actor_removes ==
    /\ \/ /\ pc = "delete_secrets"
          /\ idx <= Len(unused.secrets)
          /\ Exists(secrets, unused.secrets[idx], namespace)
          /\ secrets' = delete_namespaced(secrets, unused.secrets[idx], namespace)
          /\ UNCHANGED configmaps
       \/ /\ pc = "delete_configmaps"
          /\ idx <= Len(unused.configmaps)
          /\ Exists(configmaps, unused.configmaps[idx], namespace)
          /\ configmaps' =
                delete_namespaced(configmaps, unused.configmaps[idx], namespace)
          /\ UNCHANGED secrets
    /\ UNCHANGED << trigger_vars, CONFIG, environ, cleanup_handler, workloads, now,
                    handler, pc, ns_iter, ns_idx, locals, total_results, cycles,
                    history >>

\* The operator with one workload in each namespace and an empty environment,
\* the ConfigMap cleanup-operator-config with or without the trigger
\* annotation, and the other parties of the cluster at work.  The calls of a
\* scan return; the delete calls and the calls on the ConfigMap may fail.
TriggerInit ==
    /\ InitOperator
    /\ environ = [k \in {} |-> <<>>]
    /\ secrets = InitSecrets
    /\ configmaps = InitConfigMaps
    /\ workloads =
          { [namespace |-> NS_prod, kind |-> "Pod", spec |-> SpecVolume],
            [namespace |-> NS_default, kind |-> "Deployment", spec |-> SpecEnvFrom] }
    /\ now = NowStart + 1
    /\ listing_faults = FALSE
    /\ \E a \in {NoAnnotations, TriggerNow} :
          config_object = [annotations |-> a, resource_version |-> 0]

TriggerNext ==
    \/ startup_handler
    \/ cleanup_timer
    \/ cleanup_namespace_begin
    \/ delete_secret
    \/ delete_secrets_end
    \/ delete_configmap
    \/ cleanup_namespace_return
    \/ perform_cleanup_end
    \/ writer_update
    \/ config_change_handler
    \/ manual_trigger_handler
    \/ remove_annotation_read
    \/ remove_annotation_patch
    \/ other_actor_removes

TriggerSpec == TriggerInit /\ [][TriggerNext]_vars

\* ============================================================== the claims

\* cleanup_namespace holds the candidates of its namespace and is in one of
\* its delete loops; in these states now is the clock reading of the cutoff.
InCall == pc \in {"delete_secrets", "delete_configmaps"}

\* cleanup_namespace is about to return its results.
AtReturn == pc = "delete_configmaps" /\ idx > Len(unused.configmaps)

\* The listing of the workload kind was reached and returned.
Listed(kind) == \E i \in 1..calls.listed : ListOrder[i] = kind

WorkloadsIn(ns) == {w \in workloads : w.namespace = ns}

\* The names a workload's spec refers to by a volume, a projected source, an
\* env value-from, an env-from or an image pull secret.
DirectSecrets(spec) ==
    IF spec.present
    THEN VolumeSecrets(spec) \cup ContainerSecrets(spec) \cup ImagePullSecrets(spec)
    ELSE {}

DirectConfigMaps(spec) ==
    IF spec.present THEN VolumeConfigMaps(spec) \cup ContainerConfigMaps(spec) ELSE {}

\* The objects of a namespace the cycle began with.
SecretsOf(ns) == Range(list_namespaced(InitSecrets, ns))
ConfigMapsOf(ns) == Range(list_namespaced(InitConfigMaps, ns))

\* The delete calls of this cleanup_namespace, in order.
CallsHere(kind) ==
    SelectSeq(delete_calls, LAMBDA c : c.position = ns_idx /\ c.kind = kind)

\* The names that are candidates of this cleanup_namespace or were passed to
\* one of its delete calls.
Touched(kind) ==
    (IF kind = "secret" THEN Range(unused.secrets) ELSE Range(unused.configmaps))
    \cup {c.name : c \in Range(CallsHere(kind))}

Age(object) == now - object.creation_timestamp.wall
Threshold == CONFIG.unused_threshold_hours * HourUnits
Old(object) == Age(object) > Threshold

MatchesPattern(name) ==
    \E i \in 1..Len(CONFIG.exclude_patterns) : fnmatch(name, CONFIG.exclude_patterns[i])

NameRule(name) ==
    \/ startswith(name, <<"d","e","f","a","u","l","t","-","t","o","k","e","n","-">>)
    \/ endswith(name, <<"-","t","o","k","e","n">>)

\* ---- C1
\* C1 as stated: a Secret or ConfigMap a workload of the namespace refers to
\* is never a candidate nor passed to a delete call, whatever listings fail.
C1_ReferencedNeverCandidate ==
    InCall =>
        \A w \in WorkloadsIn(namespace) :
            /\ DirectSecrets(w.spec) \cap Touched("secret") = {}
            /\ DirectConfigMaps(w.spec) \cap Touched("configmap") = {}

\* C1, amended: a Secret or ConfigMap referred to by a workload whose kind's
\* listing was reached and returned is never a candidate nor passed to a
\* delete call, whatever its age.
C1_ReferencedByListedNeverCandidate ==
    InCall =>
        \A w \in WorkloadsIn(namespace) :
            Listed(w.kind) =>
                /\ DirectSecrets(w.spec) \cap Touched("secret") = {}
                /\ DirectConfigMaps(w.spec) \cap Touched("configmap") = {}

\* A listing failed, a listed workload refers to a ConfigMap and a Secret
\* older than the threshold, and delete calls were made.
C1_Witness ==
    /\ InCall
    /\ calls.listed < Len(ListOrder)
    /\ CallsHere("secret") # <<>>
    /\ \E w \in WorkloadsIn(namespace) :
          /\ Listed(w.kind)
          /\ \E s \in SecretsOf(namespace) : s.name \in DirectSecrets(w.spec) /\ Old(s)
          /\ \E c \in ConfigMapsOf(namespace) :
                c.name \in DirectConfigMaps(w.spec) /\ Old(c)

\* ---- C2
\* C2: a Secret or ConfigMap whose age at the cutoff computation is below the
\* threshold, or exactly the threshold, is never a candidate nor deleted.
C2_YoungNeverCandidate ==
    InCall =>
        /\ \A s \in SecretsOf(namespace) :
              Age(s) <= Threshold => s.name \notin Touched("secret")
        /\ \A c \in ConfigMapsOf(namespace) :
              Age(c) <= Threshold => c.name \notin Touched("configmap")

\* Every call returned, and a Secret that nothing but its age protects is
\* exactly as old as the threshold.
C2_Witness ==
    /\ InCall
    /\ calls.oc = AllOk
    /\ \E s \in SecretsOf(namespace) :
          /\ Age(s) = Threshold
          /\ s.name \notin references.secrets
          /\ s.type \notin SystemSecretTypes
          /\ ~MatchesPattern(s.name)
          /\ ~NameRule(s.name)
          /\ s.name \notin Touched("secret")

\* ---- C3
\* C3: a Secret or ConfigMap whose name matches a glob of exclude_patterns is
\* never a candidate nor deleted.
C3_ExcludedNeverCandidate ==
    InCall =>
        /\ \A s \in SecretsOf(namespace) :
              MatchesPattern(s.name) => s.name \notin Touched("secret")
        /\ \A c \in ConfigMapsOf(namespace) :
              MatchesPattern(c.name) => c.name \notin Touched("configmap")

\* A live call in which a Secret and a ConfigMap that nothing but a pattern
\* protects are left alone while other Secrets are deleted.
C3_Witness ==
    /\ AtReturn
    /\ ~CONFIG.dry_run
    /\ calls.oc = AllOk
    /\ CallsHere("secret") # <<>>
    /\ \E s \in SecretsOf(namespace) :
          /\ MatchesPattern(s.name)
          /\ ~NameRule(s.name)
          /\ s.type \notin SystemSecretTypes
          /\ s.name \notin references.secrets
          /\ Old(s)
    /\ \E c \in ConfigMapsOf(namespace) :
          /\ MatchesPattern(c.name)
          /\ c.name \notin references.configmaps
          /\ Old(c)

\* ---- C4
\* C4: a Secret of a system type, or whose name starts with 'default-token-'
\* or ends with '-token', is never a candidate nor deleted, whatever
\* exclude_patterns holds.
C4_SystemSecretNeverCandidate ==
    InCall =>
        \A s \in SecretsOf(namespace) :
            (s.type \in SystemSecretTypes \/ NameRule(s.name))
                => s.name \notin Touched("secret")

\* exclude_patterns is empty, and Secrets of each system type and of each
\* name rule are old and unreferenced while another Secret is a candidate.
C4_Witness ==
    /\ InCall
    /\ CONFIG.exclude_patterns = <<>>
    /\ calls.oc = AllOk
    /\ unused.secrets # <<>>
    /\ \A t \in SystemSecretTypes :
          \E s \in SecretsOf(namespace) :
              s.type = t /\ Old(s) /\ s.name \notin references.secrets
    /\ \E s \in SecretsOf(namespace) :
          /\ startswith(s.name, <<"d","e","f","a","u","l","t","-","t","o","k","e","n","-">>)
          /\ s.type \notin SystemSecretTypes
          /\ Old(s) /\ s.name \notin references.secrets
    /\ \E s \in SecretsOf(namespace) :
          /\ endswith(s.name, <<"-","t","o","k","e","n">>)
          /\ s.type \notin SystemSecretTypes
          /\ Old(s) /\ s.name \notin references.secrets

\* ---- C5
\* C5: with dry_run true the candidates are those the same state gives with
\* dry_run false, no delete call is made and no step of the cycle changes
\* the Secrets or the ConfigMaps.
C5_DryRunNoMutation ==
    /\ [](CONFIG.dry_run /\ InCall =>
            /\ unused = get_unused_resources([CONFIG EXCEPT !.dry_run = FALSE],
                                             namespace, calls.oc, now).unused
            /\ delete_calls = <<>>)
    /\ [][CONFIG.dry_run /\ pc # "idle" =>
            /\ secrets' = secrets
            /\ configmaps' = configmaps
            /\ delete_calls' = <<>>]_vars

\* A dry-run call that went through candidates of both kinds.
C5_Witness ==
    /\ AtReturn
    /\ CONFIG.dry_run
    /\ unused.secrets # <<>>
    /\ unused.configmaps # <<>>
    /\ results = [secrets_deleted |-> Len(unused.secrets),
                  configmaps_deleted |-> Len(unused.configmaps)]

\* ---- C6
\* The delete calls of this cleanup_namespace that raised ApiException.
Failed(kind) == Len(SelectSeq(CallsHere(kind), LAMBDA c : c.result # "ok"))

\* C6 as stated: the counts cleanup_namespace returns are those of a dry run
\* over the same candidates (their number), however the delete calls go.
C6_CountsAsDryRun ==
    AtReturn =>
        results = [secrets_deleted |-> Len(unused.secrets),
                   configmaps_deleted |-> Len(unused.configmaps)]

\* C6, amended: a dry run returns the number of candidates of each kind; a
\* live call returns that number less the delete calls that raised
\* ApiException, so the two agree exactly when no live delete fails.
C6_CountsLessFailures ==
    AtReturn =>
        /\ results.secrets_deleted = Len(unused.secrets) - Failed("secret")
        /\ results.configmaps_deleted = Len(unused.configmaps) - Failed("configmap")
        /\ CONFIG.dry_run => Failed("secret") = 0 /\ Failed("configmap") = 0

\* A live call in which one delete succeeded and another failed.
C6_Witness ==
    /\ AtReturn
    /\ ~CONFIG.dry_run
    /\ Failed("secret") >= 1
    /\ results.secrets_deleted >= 1
    /\ results.secrets_deleted < Len(unused.secrets)

\* ---- C7
\* C7 as stated: when the listing of one kind fails with ApiException, the
\* references hold every reference of the workloads of each other kind whose
\* listing does not fail.
C7_OtherKindsKept ==
    (InCall /\ \E k \in Kinds : calls.oc.list[k] = "ApiException") =>
        \A w \in WorkloadsIn(namespace) :
            calls.oc.list[w.kind] = "ok" =>
                /\ DirectSecrets(w.spec) \subseteq references.secrets
                /\ DirectConfigMaps(w.spec) \subseteq references.configmaps

\* C7, amended: when a listing fails with ApiException the call goes on, and
\* the references hold every reference of the workloads of the kinds listed
\* before the failing one; the kinds after it are not listed.
C7_ListedKindsKept ==
    InCall =>
        /\ calls.listed = Len(ListOrder)
              \/ calls.oc.list[ListOrder[calls.listed + 1]] = "ApiException"
        /\ \A w \in WorkloadsIn(namespace) :
              Listed(w.kind) =>
                  /\ DirectSecrets(w.spec) \subseteq references.secrets
                  /\ DirectConfigMaps(w.spec) \subseteq references.configmaps

\* A listing after the first failed, and a workload listed before it refers
\* to a Secret and a ConfigMap.
C7_Witness ==
    /\ InCall
    /\ calls.listed \in 1..(Len(ListOrder) - 1)
    /\ \E w \in WorkloadsIn(namespace) :
          /\ Listed(w.kind)
          /\ DirectSecrets(w.spec) # {}
          /\ DirectConfigMaps(w.spec) # {}
          /\ DirectSecrets(w.spec) \subseteq references.secrets

\* ---- C8
\* C8 as stated: the scan of a namespace does not end on the read of a
\* spec that names a service account, and for a workload of the namespace
\* that names service account S, every Secret the ServiceAccount S of that
\* namespace lists (secrets or image pull secrets) is in the references and
\* is never a candidate, when every listing and every service account read
\* returned.
C8_ServiceAccountSecretsKept ==
    /\ \A i \in 1..Len(visited) : visited[i].error # "AttributeError"
    /\ (InCall /\ calls.listed = Len(ListOrder)
               /\ \A r \in calls.sa_reads : r.status = "ok") =>
          \A w \in WorkloadsIn(namespace) :
              (w.spec.present /\ w.spec.service_account_name # Absent) =>
                  \A a \in ServiceAccountsNamed(w.spec.service_account_name,
                                                namespace) :
                      /\ Range(a.secrets) \cup Range(a.image_pull_secrets)
                            \subseteq references.secrets
                      /\ (Range(a.secrets) \cup Range(a.image_pull_secrets))
                            \cap Touched("secret") = {}

\* ---- C9
\* C9: an exception in one namespace does not end the cycle: the namespaces
\* are visited in the order of the list, one after the other, and the cycle
\* ends only after the last of them, logging the totals.
C9_CycleContinues ==
    /\ [](pc # "idle" =>
            /\ Len(visited) = ns_idx - 1
            /\ Len(visited) <= Len(ns_iter)
            /\ \A i \in 1..Len(visited) : visited[i].namespace = ns_iter[i])
    /\ [][pc # "idle" /\ pc' = "idle" =>
            /\ Len(visited) = Len(ns_iter)
            /\ cycle_log' = "Cleanup cycle completed"]_vars

\* The loop is over: the first namespace raised and the second returned.
C9_Witness ==
    /\ pc = "ns_loop"
    /\ ns_idx > Len(ns_iter)
    /\ Len(visited) = 2
    /\ visited[1].status = "raised"
    /\ visited[2].status = "returned"

\* ---- C10
NamesOfCalls(kind) == [i \in 1..Len(CallsHere(kind)) |-> CallsHere(kind)[i].name]

\* C10: in live mode a delete call is made for every candidate, in order: a
\* delete that raises ApiException is followed by the next candidate.
C10_EveryCandidateAttempted ==
    /\ [](~CONFIG.dry_run /\ InCall =>
            /\ NamesOfCalls("secret") =
                  SubSeq(unused.secrets, 1,
                         IF pc = "delete_secrets" THEN idx - 1 ELSE Len(unused.secrets))
            /\ NamesOfCalls("configmap") =
                  SubSeq(unused.configmaps, 1,
                         IF pc = "delete_configmaps" THEN idx - 1 ELSE 0))
    /\ [][(/\ InCall
           /\ Len(delete_calls') = Len(delete_calls) + 1
           /\ delete_calls'[Len(delete_calls')].result = "ApiException") =>
            /\ pc' = pc
            /\ idx' = idx + 1
            /\ unused' = unused
            /\ ns_idx' = ns_idx]_vars

\* A live call returns after a failed delete and a later successful one of
\* each kind.
C10_Witness ==
    /\ AtReturn
    /\ ~CONFIG.dry_run
    /\ Len(CallsHere("secret")) >= 2
    /\ CallsHere("secret")[1].result = "ApiException"
    /\ CallsHere("secret")[2].result = "ok"
    /\ \E i \in 1..Len(CallsHere("configmap")) :
          CallsHere("configmap")[i].result = "ApiException"

\* ----------------------------------------------------------------- C11

\* The delete calls of this cleanup_namespace that the API server answered
\* or would have answered with success: the object was deleted by the call or
\* was gone already.
GoneOrDeleted(kind) ==
    SelectSeq(CallsHere(kind), LAMBDA c : c.outcome = "ok")

\* C11: a candidate that another actor removed between the classification
\* and the delete call is a successful no-op: when a live cleanup_namespace
\* returns, no delete call that found its object gone is reported as a
\* failure, and each of them is counted in the returned count.
C11_GoneCountsAsDeleted ==
    (AtReturn /\ calls_delete) =>
        /\ \A c \in Range(CallsHere("secret")) \cup Range(CallsHere("configmap")) :
              c.outcome = "ok" => c.result = "ok"
        /\ results.secrets_deleted = Len(GoneOrDeleted("secret"))
        /\ results.configmaps_deleted = Len(GoneOrDeleted("configmap"))

\* ----------------------------------------------------------------- C12

\* The step is the read or the patch of the removal of the annotation.
RemovalStep == mt_pc \in {"read", "patch"} /\ trigger_log' # trigger_log

\* The read or the patch of the removal failed.
RemovalFailed(log) ==
    log.read \in {"ApiException", "Exception"}
    \/ log.patch \in {"ApiException", "Exception"}

VisitedNamespaces == [i \in 1..Len(visited) |-> visited[i].namespace]

\* C12: manual_trigger_handler issues the read and the patch that remove the
\* trigger annotation only after perform_cleanup has returned: no cycle is
\* running then, and the handler gets there from the end of the loop over
\* every configured namespace (or from a perform_cleanup that had no cleanup
\* handler and did nothing).  A read or patch that fails is logged and the
\* handler is over: the event is consumed, no cycle is touched, and no step
\* of the removal changes the Secrets, ConfigMaps or workloads.
C12_RemovalAfterCycle ==
    /\ [](mt_pc \in {"read", "patch"} =>
            /\ pc = "idle"
            /\ handler = "none"
            /\ cycle_log \in {"Cleanup cycle completed",
                              "Cleanup handler not initialized"})
    /\ [][(mt_pc # "read" /\ mt_pc' = "read") =>
            IF cleanup_handler
            THEN /\ handler = "manual_trigger_handler"
                 /\ pc = "ns_loop"
                 /\ ns_idx > Len(ns_iter)
                 /\ VisitedNamespaces = ns_iter
            ELSE pc = "idle"]_vars
    /\ [][RemovalStep =>
            /\ cluster' = cluster
            /\ pc' = "idle"
            /\ mt_pc' \in {"patch", "none"}
            /\ RemovalFailed(trigger_log') =>
                  /\ mt_pc' = "none"
                  /\ events' = Tail(events)
                  /\ config_object' = config_object]_vars

\* A manually triggered cycle has deleted a Secret and the patch of the
\* removal has failed since.
C12_Witness ==
    /\ mt_pc = "none"
    /\ trigger_log.read = "ok"
    /\ trigger_log.patch \in {"ApiException", "Exception"}
    /\ cycle_log = "Cleanup cycle completed"
    /\ secrets # InitSecrets

\* ----------------------------------------------------------------- C13

\* The step begins a cycle of manual_trigger_handler.
ManualCycleBegins ==
    handler # "manual_trigger_handler" /\ handler' = "manual_trigger_handler"

\* The update the handlers are working on set the annotation to 'now' anew.
NewlySet(event) == ~triggered(event.old) /\ triggered(event.new)

\* C13: the manual trigger is consume-once: manual_trigger_handler begins a
\* cycle only for an update that newly set the trigger annotation to 'now';
\* an update that leaves the annotation as it was begins none.
C13_ConsumeOnce ==
    [][ManualCycleBegins => NewlySet(Head(events))]_vars

\* ----------------------------------------------------------------- C14

\* The step is a patch of the removal of the annotation that the API server
\* accepted.
PatchSucceeds == mt_pc = "patch" /\ trigger_log'.patch = "ok"

\* C14: when the read and the patch of the removal have both succeeded, the
\* trigger annotation is absent from the stored ConfigMap
\* cleanup-operator-config.
C14_AnnotationAbsentAfterRemoval ==
    [][PatchSucceeds => TriggerKey \notin DOMAIN config_object'.annotations]_vars

\* ----------------------------------------------------------------- C15

\* C15: once startup has loaded the configuration, the interval of
\* cleanup_timer is the cleanup_interval of the loaded configuration.
C15_TimerUsesLoadedInterval ==
    cleanup_handler => timer_interval = CONFIG.cleanup_interval

\* ----------------------------------------------------------------- C16

\* get_unused_resources has just returned to cleanup_namespace and every
\* listing it made succeeded: the four workload kinds, the Secrets and the
\* ConfigMaps.  No delete call of this cleanup_namespace has been made, so
\* the cluster is the one that was listed.
AfterFullListing ==
    /\ pc = "delete_secrets"
    /\ idx = 1
    /\ calls.listed = Len(ListOrder)
    /\ \A k \in Kinds : calls.oc.list[k] = "ok"
    /\ calls.oc.secret = "ok"
    /\ calls.oc.config_map = "ok"

\* The positions of a name in a sequence of names or of objects.
PositionsIn(names, name) == {i \in 1..Len(names) : names[i] = name}

\* The candidates are names of the listing, each once, in its order.
InListingOrder(candidates, listing) ==
    /\ \A i \in 1..Len(candidates) :
          /\ PositionsIn(candidates, candidates[i]) = {i}
          /\ PositionsIn(NamesOf(listing), candidates[i]) # {}
    /\ \A i, j \in 1..Len(candidates) :
          i < j => \E a \in PositionsIn(NamesOf(listing), candidates[i]),
                      b \in PositionsIn(NamesOf(listing), candidates[j]) : a < b

\* C16: when every list call succeeded, get_unused_resources returns exactly
\* the eligible resources: a Secret of the namespace that is neither excluded
\* nor of a system type, and a ConfigMap that is not excluded, is a candidate
\* if and only if its name is not in the reference set of its kind and it was
\* created strictly before the cutoff; nothing else is a candidate, and the
\* candidates come once each, in the order of the listing.
C16_ExactlyTheEligible ==
    AfterFullListing =>
        /\ \A s \in Range(list_namespaced(secrets, namespace)) :
              PositionsIn(unused.secrets, s.name) # {}
              <=> /\ ~MatchesPattern(s.name)
                  /\ ~NameRule(s.name)
                  /\ s.type \notin SystemSecretTypes
                  /\ s.name \notin references.secrets
                  /\ Old(s)
        /\ \A c \in Range(list_namespaced(configmaps, namespace)) :
              PositionsIn(unused.configmaps, c.name) # {}
              <=> /\ ~MatchesPattern(c.name)
                  /\ c.name \notin references.configmaps
                  /\ Old(c)
        /\ InListingOrder(unused.secrets, list_namespaced(secrets, namespace))
        /\ InListingOrder(unused.configmaps, list_namespaced(configmaps, namespace))

\* After a full listing a Secret is a candidate while another Secret of an
\* ordinary name and type, as old, is kept for being referenced, and a
\* ConfigMap is kept as well.
C16_Witness ==
    /\ AfterFullListing
    /\ Len(unused.secrets) >= 1
    /\ \E s \in Range(list_namespaced(secrets, namespace)) :
          /\ ~MatchesPattern(s.name) /\ ~NameRule(s.name)
          /\ s.type \notin SystemSecretTypes
          /\ s.name \in references.secrets
          /\ Old(s)
    /\ \E c \in Range(list_namespaced(configmaps, namespace)) :
          PositionsIn(unused.configmaps, c.name) = {}

\* ----------------------------------------------------------------- C17

\* The loop of perform_cleanup over the namespaces has ended.
AtLoopEnd == pc = "ns_loop" /\ ns_idx > Len(ns_iter)

\* The statement as written: every cycle ends with each configured
\* namespace visited exactly once.
C17_EachNamespaceOnce ==
    AtLoopEnd =>
        \A n \in Range(ns_iter) :
            Cardinality(PositionsIn(VisitedNamespaces, n)) = 1

\* C17: every cleanup cycle terminates, whatever the calls of the API client
\* do: a cycle that has begun reaches the end of perform_cleanup and the
\* operator is idle again, which it becomes from the end of the loop only;
\* during the cycle the list of namespaces is the configured one and the
\* visits made are its first entries in order, and at the end of the loop
\* there is one visit for each entry of the list (each namespace exactly once
\* when the list names none twice).
C17_CycleTerminates ==
    /\ (pc # "idle") ~> (pc = "idle")
    /\ [](pc # "idle" =>
            /\ ns_iter = CONFIG.namespaces
            /\ ns_idx \in 1..(Len(ns_iter) + 1)
            /\ VisitedNamespaces = SubSeq(ns_iter, 1, ns_idx - 1))
    /\ [](AtLoopEnd => VisitedNamespaces = ns_iter)
    /\ [][(pc # "idle" /\ pc' = "idle") => AtLoopEnd]_vars

\* The loop over two namespaces has ended although the scan of one raised
\* and a delete call in the other failed.
C17_Witness ==
    /\ AtLoopEnd
    /\ Len(ns_iter) = 2
    /\ \E i \in 1..Len(visited) : visited[i].status = "raised"
    /\ \E i \in 1..Len(delete_calls) : delete_calls[i].result # "ok"

\* ----------------------------------------------------------------- C18

\* The delete calls of this cleanup_namespace that returned without error.
Returned(kind) == SelectSeq(CallsHere(kind), LAMBDA c : c.result = "ok")

\* The sum of a count over the visits whose cleanup_namespace returned.
RECURSIVE SumOfReturned(_, _)
SumOfReturned(visits, count) ==
    IF visits = <<>>
    THEN 0
    ELSE (IF Head(visits).status = "returned" THEN Head(visits).results[count] ELSE 0)
         + SumOfReturned(Tail(visits), count)

\* C18: in live mode each count cleanup_namespace returns is the number of
\* delete calls of its kind that this invocation made and that returned
\* without error, and no more than the number of candidates; the totals of
\* perform_cleanup are, after every namespace and so at the end of the cycle,
\* the sums of the counts returned by the namespaces whose cleanup_namespace
\* returned, those that raised adding nothing.
C18_CountAccounting ==
    /\ (AtReturn /\ ~CONFIG.dry_run) =>
          /\ results.secrets_deleted = Len(Returned("secret"))
          /\ results.configmaps_deleted = Len(Returned("configmap"))
          /\ results.secrets_deleted <= Len(unused.secrets)
          /\ results.configmaps_deleted <= Len(unused.configmaps)
    /\ pc = "ns_loop" =>
          /\ total_results.secrets_deleted = SumOfReturned(visited, "secrets_deleted")
          /\ total_results.configmaps_deleted =
                SumOfReturned(visited, "configmaps_deleted")

\* A live cycle over two namespaces has ended: one returned a count, the
\* other raised, and a delete call has failed.
C18_Witness ==
    /\ AtLoopEnd
    /\ ~CONFIG.dry_run
    /\ \E i, j \in 1..Len(visited) :
          /\ visited[i].status = "returned"
          /\ visited[i].results.secrets_deleted > 0
          /\ visited[j].status = "raised"
    /\ \E i \in 1..Len(delete_calls) : delete_calls[i].result = "ApiException"
    /\ total_results.secrets_deleted > 0

\* ----------------------------------------------------------------- C19

\* The step makes a delete call; LastCall is the call it made.
DeleteCallMade == Len(delete_calls') = Len(delete_calls) + 1
LastCall == delete_calls'[Len(delete_calls')]

\* The candidate the delete loop of this cleanup_namespace stands at.
CandidateAt ==
    IF pc = "delete_secrets"
    THEN [kind |-> "secret", name |-> unused.secrets[idx]]
    ELSE [kind |-> "configmap", name |-> unused.configmaps[idx]]

SameResource(c, d) ==
    c.namespace = d.namespace /\ c.kind = d.kind /\ c.name = d.name

SameCandidate(c, d) == c.position = d.position /\ SameResource(c, d)

\* The statement as written: in one cycle no Secret or ConfigMap is passed to
\* a delete call twice.
C19_OneDeletePerCycle ==
    \A i, j \in 1..Len(delete_calls) :
        i < j => ~SameResource(delete_calls[i], delete_calls[j])

\* The objects of namespace ns other than the one of the name.
Others(objects, ns, name) == SelectSeq(objects[ns], LAMBDA o : o.name # name)

\* C19: every delete call is made by a started operator in live mode, from
\* the delete loop of a cleanup_namespace, for the candidate the loop stands
\* at and in the namespace of that invocation, which is an entry of the
\* configured list; no candidate of an invocation is passed to two delete
\* calls; the Secrets and the ConfigMaps change only by a delete call that
\* returned, which removes the object of that name in that namespace and
\* nothing else, so the objects of an unconfigured namespace stay; and the
\* workloads never change.
C19_DeleteFrame ==
    /\ [][DeleteCallMade =>
            /\ cleanup_handler
            /\ ~CONFIG.dry_run
            /\ InCall
            /\ idx <= Len(IF pc = "delete_secrets"
                          THEN unused.secrets ELSE unused.configmaps)
            /\ LastCall.kind = CandidateAt.kind
            /\ LastCall.name = CandidateAt.name
            /\ LastCall.namespace = namespace
            /\ LastCall.position = ns_idx
            /\ \E i \in 1..Len(CONFIG.namespaces) :
                  CONFIG.namespaces[i] = LastCall.namespace]_vars
    /\ [](\A i, j \in 1..Len(delete_calls) :
             i < j => ~SameCandidate(delete_calls[i], delete_calls[j]))
    /\ [][<< secrets, configmaps >>' # << secrets, configmaps >> =>
            /\ DeleteCallMade
            /\ LastCall.result = "ok"
            /\ \A ns \in DOMAIN secrets :
                  /\ ns # LastCall.namespace =>
                        secrets'[ns] = secrets[ns] /\ configmaps'[ns] = configmaps[ns]
                  /\ ns = LastCall.namespace =>
                        IF LastCall.kind = "secret"
                        THEN /\ secrets'[ns] = Others(secrets, ns, LastCall.name)
                             /\ configmaps'[ns] = configmaps[ns]
                        ELSE /\ configmaps'[ns] = Others(configmaps, ns, LastCall.name)
                             /\ secrets'[ns] = secrets[ns]]_vars
    /\ [][workloads' = workloads]_vars
    /\ [](~cleanup_handler =>
             delete_calls = <<>> /\ secrets = InitSecrets /\ configmaps = InitConfigMaps)

\* A delete call has removed Secret db of namespace prod while namespace
\* default, which holds a Secret of that name, is not configured.
C19_Witness ==
    /\ pc # "idle"
    /\ \E i \in 1..Len(delete_calls) :
          /\ delete_calls[i].result = "ok"
          /\ delete_calls[i].name = N_db
          /\ delete_calls[i].namespace = NS_prod
    /\ \A i \in 1..Len(ns_iter) : ns_iter[i] # NS_default
    /\ Exists(secrets, N_db, NS_default)

\* ----------------------------------------------------------------- C20

====
